---- MODULE Spec2Model ----
(***************************************************************************)
(* Model of the message pipeline of msd-cli (src/libs/message.mts):        *)
(* buildMessageFile / buildAllMessageFile, deployMessage /                 *)
(* deployAllMessage and deleteMessage / deleteAllMessage, run against a    *)
(* destination chat service and the per-day intermediate files on disk.    *)
(*                                                                         *)
(* Node.js runs one callback at a time, so a task only loses control at an *)
(* `await`.  The position of a task (pc) names the await it is suspended   *)
(* at; one action is the completion of that await together with all the    *)
(* synchronous code up to the next await of the same task.                 *)
(***************************************************************************)
EXTENDS Integers, Sequences, FiniteSets, TLC

\* ---------------------------------------------------------------- bounds
NumChannels == 2
NumFiles == 2
MaxTotalFiles == 2
MaxMsgs == 2
MaxTotalMsgs == 2
MaxRuns == 4
MaxFaults == 1
MaxMentions == 2
MaxAttach == 2
MaxSize == 2
NumUserIds == 3
MaxCats == 2
MaxCatRuns == 3

Channels == 1..NumChannels
FileIdx == 1..NumFiles
Tasks == Channels \X FileIdx

\* ---------------------------------------------------------------- inputs
VARIABLES
    chanFiles,    \* channel.discord.message_file_paths.length, per channel
    chanValid,    \* does channels.cache.get(channel_id) give a GuildText channel
    pinIds,       \* channel.slack.pin_ids, per channel
    maxFileSize,  \* channel.discord.guild.max_file_size, per channel
    src,          \* the source per-day files (arrays of SlackMessage)
    users,        \* the User[] array read from the user file
    slackUsers    \* the user ids the Slack API resolves (getUsername, getUser)

\* ---------------------------------------------------------------- state
VARIABLES
    disk,         \* the intermediate per-day files
    dest,         \* the destination channels: messages in insertion order
    nextId,       \* next message id the destination assigns, per channel
    run,          \* the command that is running: idle, build, deploy, delete
    hist,         \* the commands that ran, with their status
    pc,           \* per file task: the await it is suspended at
    messages,     \* per file task: the array read from the file
    idx,          \* per file task: index of the record being handled
    newMessages,  \* per file task: deployMessage's newMessages
    sendMessage,  \* per file task: id of the message the last send returned
    cause,        \* per file task: why it failed
    issued,       \* per file task: destination calls issued in this run
    written,      \* per file task: writes of the file in this run
    faults,       \* failures the environment has injected so far
    isMaxFileSizeOver,  \* per file task: isMaxFileSizeOver of buildMessageFile's result
    allMaxFileSizeOver, \* isMaxFileSizeOver of buildAllMessageFile
    usernameCalls \* per file task: the ids buildMessageFile passed to getUsername

\* ------------------------------------------ state of src/libs/category.mts
VARIABLES
    categories,    \* the Category[] array createCategory is given
    catFile,       \* the category file
    guild,         \* the ids of the categories of the destination guild
    catNextId,     \* next channel id the destination assigns
    catRun,        \* the category command that is running: idle, create, delete
    catHist,       \* the category commands that ran, with their status
    catPc,         \* the await the command is suspended at
    catList,       \* deleteCategory's categories (read from the file)
    catIdx,        \* index of the category being handled
    newCategories  \* createCategory's / deleteCategory's newCategories

inputs == <<chanFiles, chanValid, pinIds, maxFileSize, src, users, slackUsers>>
buildOut == <<isMaxFileSizeOver, allMaxFileSizeOver, usernameCalls>>
catVars == <<categories, catFile, guild, catNextId, catRun, catHist, catPc, catList, catIdx,
            newCategories>>
locals == <<pc, messages, idx, newMessages, sendMessage, cause, issued, written>>
vars == <<chanFiles, chanValid, pinIds, maxFileSize, src, users, slackUsers, disk, dest, nextId,
          run, hist, pc, messages, idx, newMessages, sendMessage, cause,
          issued, written, faults, isMaxFileSizeOver, allMaxFileSizeOver,
          usernameCalls, categories, catFile, guild, catNextId, catRun, catHist, catPc,
          catList, catIdx, newCategories>>
msgVars == <<inputs, buildOut, disk, dest, nextId, run, hist, locals, faults>>

Chan(t) == t[1]
FileNo(t) == t[2]
\* the files that channel.discord.message_file_paths really holds
RealTasks == {t \in Tasks : FileNo(t) <= chanFiles[Chan(t)]}

\* The source timestamp of the j-th message of file f (ascending in a file
\* and from one day's file to the next).
TsOf(f, j) == (f - 1) * MaxMsgs + j
AllTs == {TsOf(f, j) : f \in FileIdx, j \in 1..MaxMsgs}

\* ------------------------------------------------------------ data types
\* A value the code leaves undefined is 0 (ids, timestamps), "undefined"
\* (the destination-side author) or the empty sequence (files).
NoId == 0

\* The URL (url_private) of the k-th attachment of the message with timestamp ts.
UrlOf(ts, k) == <<ts, k>>

\* The user ids of the workspace, and the app id of its bot user.
UserIds == 1..NumUserIds
BotUserId == NumUserIds + 1
BotAppId == NumUserIds + 2

\* user.slack.name of the user with this id (the Slack API gives the same name).
NameOf(id) == 10 + id

\* An entry of the User[] array: slack.id, slack.name and slack.bot?.app_id
\* (NoId when the user is no bot).
User(id, appId) == [id |-> id, name |-> NameOf(id), app_id |-> appId]

\* A SlackMessage of the export: ts (NoId when undefined), text (hasText is
\* FALSE when undefined; mentions are the ids of its <@U..> tokens, in order),
\* user and app_id (NoId when undefined), and the optional attachment list
\* (hasFiles is FALSE when message.files is undefined).  This one is a
\* message of user 1 with a text without mentions.
SlackMsg(ts, hasFiles, sizes) ==
    [ts |-> ts, hasText |-> TRUE, mentions |-> <<>>, user |-> 1, app_id |-> NoId,
     hasFiles |-> hasFiles,
     files |-> [k \in 1..Len(sizes) |-> [size |-> sizes[k], url_private |-> UrlOf(ts, k)]]]

\* ------------------------------------------------------- buildMessageFile
\* message.files?.filter(file => file.size && file.size >= maxFileSize)
\*               .map(file => file.url_private || "")
RECURSIVE SizeOverFileUrls(_, _)
SizeOverFileUrls(files, max) ==
    IF files = <<>> THEN <<>>
    ELSE LET f == Head(files)
             rest == SizeOverFileUrls(Tail(files), max)
         IN IF f.size # 0 /\ f.size >= max THEN <<f.url_private>> \o rest ELSE rest

\* message.files?.filter(file => file.size && file.size < maxFileSize)
\*               .map(file => file.url_private || "")
RECURSIVE UploadFileUrls(_, _)
UploadFileUrls(files, max) ==
    IF files = <<>> THEN <<>>
    ELSE LET f == Head(files)
             rest == UploadFileUrls(Tail(files), max)
         IN IF f.size # 0 /\ f.size < max THEN <<f.url_private>> \o rest ELSE rest

\* Array.prototype.find: the index of the first element that matches, among
\* the indices S of the matching elements (0: undefined).
FirstIndex(S) == IF S = {} THEN 0 ELSE CHOOSE i \in S : \A j \in S : i <= j

\* users.find(user => user.slack.id === userId)
FindById(userId) == FirstIndex({i \in 1..Len(users) : users[i].id = userId})

\* The name that replaces the mention of userId: the one of the users array,
\* else the one getUsername gives; 0 when getUsername fails (the code throws).
MentionNameKeepsUnknown(userId) ==
    LET i == FindById(userId)
    IN IF i # 0 /\ users[i].name # 0 THEN users[i].name ELSE NameOf(userId)
MentionName(userId) ==
    LET i == FindById(userId)
    IN IF i # 0 /\ users[i].name # 0 THEN users[i].name
       ELSE IF userId \in slackUsers THEN NameOf(userId)
       ELSE 0

\* content after the mention loop: the name put in the place of each token.
MentionNames(m) == [k \in 1..Len(m.mentions) |-> MentionName(m.mentions[k])]

\* users.find(user => user.slack.id === message.user ||
\*                    user.slack.bot?.app_id === message.app_id)
\* (=== holds for two undefined values: a user that is no bot matches every
\* message without app_id.)
FindSender(m) ==
    FirstIndex({i \in 1..Len(users) : users[i].id = m.user \/ users[i].app_id = m.app_id})

\* anthor.id: the user found in the array, else the one getUser gives for
\* message.user; 0 when there is none (the code throws).
Sender(m) ==
    LET i == FindSender(m)
    IN IF i # 0 THEN users[i].id
       ELSE IF m.user # NoId /\ m.user \in slackUsers THEN m.user
       ELSE 0

\* `message.text === undefined || message.ts === undefined`
MissingRequired(m) == ~m.hasText \/ m.ts = NoId

\* Does the body of the for loop throw for message m?
Throws(m) ==
    \/ MissingRequired(m)
    \/ \E k \in 1..Len(m.mentions) : MentionName(m.mentions[k]) = 0
    \/ Sender(m) = 0

\* The ids the mention loop passes to getUsername for the tokens ms of one
\* message, one call for each token without a named user in the array, up to
\* the call that fails.
RECURSIVE CallsIn(_)
CallsIn(ms) ==
    IF ms = <<>> THEN <<>>
    ELSE LET i == FindById(Head(ms))
         IN IF i # 0 /\ users[i].name # 0 THEN CallsIn(Tail(ms))
            ELSE <<Head(ms)>> \o (IF Head(ms) \in slackUsers THEN CallsIn(Tail(ms)) ELSE <<>>)

\* The ids passed to getUsername in the for loop over the messages, up to
\* the message that throws.
RECURSIVE UsernameCalls(_)
UsernameCalls(msgs) ==
    IF msgs = <<>> THEN <<>>
    ELSE IF MissingRequired(Head(msgs)) THEN <<>>
         ELSE CallsIn(Head(msgs).mentions) \o
              (IF Throws(Head(msgs)) THEN <<>> ELSE UsernameCalls(Tail(msgs)))

\* isMaxFileSizeOver of buildMessageFile: `let isMaxFileSizeOver = false`,
\* returned as it is; no statement of the function assigns to it.
FileSizeOver(msgs, max) == FALSE

\* Does buildMessageFile reach createMessageFile?
BuildOk(msgs) == \A j \in 1..Len(msgs) : ~Throws(msgs[j])

\* The main record pushed for one source message.
MainRecord(m, isPinned) ==
    [message_id |-> NoId, channel_id |-> NoId, guild_id |-> NoId,
     timestamp |-> 0, anthor |-> "undefined",
     content |-> [text |-> m.ts, names |-> MentionNames(m), urls |-> <<>>],
     embeds |-> TRUE,
     files |-> <<>>,
     is_pinned |-> isPinned,
     slack |-> [anthor |-> Sender(m), timestamp |-> m.ts]]

\* The second record, which carries the attachments below the embed.
CompanionRecord(m, isPinned, max) ==
    [message_id |-> NoId, channel_id |-> NoId, guild_id |-> NoId,
     timestamp |-> 0, anthor |-> "undefined",
     content |-> [text |-> 0, names |-> <<>>, urls |-> SizeOverFileUrls(m.files, max)],
     embeds |-> FALSE,
     files |-> UploadFileUrls(m.files, max),
     is_pinned |-> isPinned,
     slack |-> [anthor |-> Sender(m), timestamp |-> m.ts]]

\* The records buildMessageFile pushes for one source message: both filters
\* give an array (truthy, also when empty) exactly when message.files is defined.
IsPinnedNever(m, pins) == FALSE
IsPinned(m, pins) == m.ts \in pins

BuildOne(m, pins, max) ==
    LET isPinned == IsPinned(m, pins)
    IN <<MainRecord(m, isPinned)>> \o
       (IF m.hasFiles THEN <<CompanionRecord(m, isPinned, max)>> ELSE <<>>)

\* The body of the for loop over the source messages.
RECURSIVE BuildMessages(_, _, _)
BuildMessages(msgs, pins, max) ==
    IF msgs = <<>> THEN <<>>
    ELSE BuildOne(Head(msgs), pins, max) \o BuildMessages(Tail(msgs), pins, max)

\* ------------------------------------------------------------------ Init
\* The attachment lists a source message is given: none (files undefined),
\* or one attachment below the guild's limit.
SrcFileLists == {<<FALSE, <<>>>>, <<TRUE, <<1>>>>}

\* The source files of length n for file f: timestamps ascend with the index.
SrcFilesOfLen(f, n) ==
    {[j \in 1..n |-> SlackMsg(TsOf(f, j), k[j][1], k[j][2])] : k \in [1..n -> SrcFileLists]}

SrcFilesFor(f) == UNION {SrcFilesOfLen(f, n) : n \in 0..MaxMsgs}

TotalFiles(cf) ==
    LET RECURSIVE Sum(_)
        Sum(c) == IF c = 0 THEN 0 ELSE cf[c] + Sum(c - 1)
    IN Sum(NumChannels)

TotalMsgs(s) ==
    LET RECURSIVE Sum(_)
        Sum(T) == IF T = {} THEN 0
                  ELSE LET t == CHOOSE u \in T : TRUE IN Len(s[t]) + Sum(T \ {t})
    IN Sum(Tasks)

\* The state before the first command: no intermediate file, an empty
\* destination, no task.
InitState ==
    /\ disk = [t \in Tasks |-> [exists |-> FALSE, messages |-> <<>>]]
    /\ dest = [c \in Channels |-> <<>>]
    /\ nextId = [c \in Channels |-> 1]
    /\ run = "idle"
    /\ hist = <<>>
    /\ pc = [t \in Tasks |-> "none"]
    /\ messages = [t \in Tasks |-> <<>>]
    /\ idx = [t \in Tasks |-> 0]
    /\ newMessages = [t \in Tasks |-> <<>>]
    /\ sendMessage = [t \in Tasks |-> NoId]
    /\ cause = [t \in Tasks |-> "none"]
    /\ issued = [t \in Tasks |-> 0]
    /\ written = [t \in Tasks |-> 0]
    /\ faults = 0
    /\ isMaxFileSizeOver = [t \in Tasks |-> FALSE]
    /\ allMaxFileSizeOver = FALSE
    /\ usernameCalls = [t \in Tasks |-> <<>>]

\* No category command has run: no category file, no category created.
CatState0 ==
    /\ categories = <<>>
    /\ catFile = [exists |-> FALSE, categories |-> <<>>]
    /\ guild = {}
    /\ catNextId = MaxCats + 1
    /\ catRun = "idle"
    /\ catHist = <<>>
    /\ catPc = "none"
    /\ catList = <<>>
    /\ catIdx = 0
    /\ newCategories = <<>>

Init ==
    /\ CatState0
    /\ chanFiles \in {cf \in [Channels -> 0..NumFiles] :
                        /\ TotalFiles(cf) \in 1..MaxTotalFiles
                        /\ \A c \in Channels : c > 1 => cf[c] <= cf[c - 1]}
    /\ chanValid \in {v \in [Channels -> BOOLEAN] : \A c \in Channels : chanFiles[c] = 0 => v[c]}
    /\ maxFileSize \in [Channels -> {2}]
    /\ src \in {s \in [Tasks -> UNION {SrcFilesFor(f) : f \in FileIdx}] :
                  /\ \A t \in Tasks :
                        IF FileNo(t) <= chanFiles[Chan(t)]
                        THEN s[t] \in SrcFilesFor(FileNo(t))
                        ELSE s[t] = <<>>
                  /\ TotalMsgs(s) <= MaxTotalMsgs}
    /\ pinIds \in {p \in [Channels -> SUBSET AllTs] :
                  \A c \in Channels :
                     p[c] \subseteq UNION {{src[<<c, f>>][j].ts : j \in 1..Len(src[<<c, f>>])} : f \in FileIdx}}
    /\ users = <<User(1, NoId)>>
    /\ slackUsers = {}
    /\ InitState

\* ---------------------------------------------- inputs of the build alone
\* The texts: up to MaxMentions mention tokens, each of any user id.
MentionSeqs == UNION {[1..n -> UserIds] : n \in 0..MaxMentions}

\* The senders: message.user and message.app_id, each given or not.
Senders == {<<u, NoId>> : u \in UserIds \cup {NoId}} \cup {<<NoId, BotAppId>>}

\* The attachment lists: files undefined, or up to MaxAttach attachments of
\* size 0..MaxSize (files: [] included).
AttachLists ==
    {<<FALSE, <<>>>>} \cup
    {<<TRUE, sz>> : sz \in UNION {[1..n -> 0..MaxSize] : n \in 0..MaxAttach}}

\* The well-formed messages with source timestamp ts.
RichMsgs(ts) ==
    {[SlackMsg(ts, a[1], a[2]) EXCEPT !.mentions = ms, !.user = sd[1], !.app_id = sd[2]] :
        ms \in MentionSeqs, sd \in Senders, a \in AttachLists}

\* The messages without text or without ts.
MalformedMsgs(ts) ==
    {[SlackMsg(ts, FALSE, <<>>) EXCEPT !.hasText = FALSE],
     [SlackMsg(ts, FALSE, <<>>) EXCEPT !.ts = NoId],
     [SlackMsg(ts, TRUE, <<1>>) EXCEPT !.ts = NoId, !.user = NoId]}

\* The messages a file of two messages is made of: one deviation at most
\* from the message of user 1 without mention and attachment.
ProbeMsgs(ts) ==
    MalformedMsgs(ts) \cup
    {m \in RichMsgs(ts) :
        \/ m.mentions = <<>> /\ m.user = 1 /\ Len(m.files) <= 1
        \/ Len(m.mentions) = 1 /\ m.user = 1 /\ ~m.hasFiles
        \/ m.mentions = <<>> /\ ~m.hasFiles}

\* The source files of the build: of one message, or of two probe messages.
BuildSrcFiles ==
    {<<>>} \cup
    {<<m>> : m \in RichMsgs(TsOf(1, 1)) \cup MalformedMsgs(TsOf(1, 1))} \cup
    {<<m, n>> : m \in ProbeMsgs(TsOf(1, 1)), n \in ProbeMsgs(TsOf(1, 2))}

\* The User[] arrays: user 1 and the bot user, in both orders, or one of
\* them, or users 1 and 2.
UserLists ==
    {<<User(1, NoId)>>, <<User(BotUserId, BotAppId)>>,
     <<User(1, NoId), User(BotUserId, BotAppId)>>,
     <<User(BotUserId, BotAppId), User(1, NoId)>>,
     <<User(1, NoId), User(2, NoId)>>}

\* One channel with one per-day file: any source file, user array, pin set
\* and upload limit; the Slack API knows user 2, or nobody.
BuildInit ==
    /\ CatState0
    /\ chanFiles = [c \in Channels |-> IF c = 1 THEN 1 ELSE 0]
    /\ chanValid = [c \in Channels |-> TRUE]
    /\ maxFileSize \in {[c \in Channels |-> x] : x \in 1..MaxSize}
    /\ src \in {[t \in Tasks |-> IF t = <<1, 1>> THEN f ELSE <<>>] : f \in BuildSrcFiles}
    /\ pinIds \in {[c \in Channels |-> IF c = 1 THEN p ELSE {}] :
                     p \in SUBSET {TsOf(1, j) : j \in 1..MaxMsgs}}
    /\ users \in UserLists
    /\ slackUsers \in SUBSET {2}
    /\ InitState

\* ------------------------------------------------------ the destination
\* A destination message: its id, whether it is pinned, whether it is the
\* "pinned a message" entry of the timeline (then target is the pinned
\* message), and where it came from: the file, the record and the run.
DestMsg(id, system, target, t, i) ==
    [id |-> id, pinned |-> FALSE, system |-> system, target |-> target,
     file |-> FileNo(t), rec |-> i, run |-> Len(hist) + 1]

Exists(c, id) == \E k \in 1..Len(dest[c]) : dest[c][k].id = id

SetPinned(d, id, b) ==
    [k \in 1..Len(d) |-> IF d[k].id = id THEN [d[k] EXCEPT !.pinned = b] ELSE d[k]]

RECURSIVE Remove(_, _)
Remove(d, id) ==
    IF d = <<>> THEN <<>>
    ELSE IF Head(d).id = id THEN Remove(Tail(d), id)
         ELSE <<Head(d)>> \o Remove(Tail(d), id)

\* ------------------------------------------------------------- commands
Quiet == \A t \in Tasks : pc[t] \in {"none", "pending", "done", "failed"}

RunStatus == IF \E t \in Tasks : pc[t] = "failed" THEN "failed" ELSE "success"

CanStart == run = "idle" /\ Len(hist) < MaxRuns

\* One task fails: the exception reaches the catch of its function, which
\* returns status "failed"; the caller throws, and the channel's task rejects.
FailCancelsSiblings(t, why) ==
    /\ pc' = [u \in Tasks |-> IF u = t \/ pc[u] \in {"read", "send", "pin", "write", "unpin", "delete"}
                              THEN "failed" ELSE pc[u]]
    /\ cause' = [cause EXCEPT ![t] = why]
Fail(t, why) ==
    /\ pc' = [pc EXCEPT ![t] = "failed"]
    /\ cause' = [cause EXCEPT ![t] = why]

\* A failure that comes from outside the program (the network, the
\* destination, the file system) and not from the state of the model.
Fault ==
    /\ faults < MaxFaults
    /\ faults' = faults + 1

\* buildAllMessageFile: every file of every channel is built concurrently.
\* (The runs explored build the export at most once, as their first command.)
StartBuild ==
    /\ CanStart
    /\ hist = <<>>
    /\ run' = "build"
    /\ pc' = [t \in Tasks |-> IF t \in RealTasks THEN "build" ELSE "none"]
    /\ UNCHANGED <<faults, inputs, buildOut, catVars, disk, dest, nextId, hist, messages, idx, newMessages,
                   sendMessage, cause, issued, written>>

\* buildMessageFile: the records of the whole file, then createMessageFile.
BuildFile(t) ==
    /\ run = "build" /\ pc[t] = "build"
    /\ BuildOk(src[t])
    /\ disk' = [disk EXCEPT ![t] =
                  [exists |-> TRUE,
                   messages |-> BuildMessages(src[t], pinIds[Chan(t)], maxFileSize[Chan(t)])]]
    /\ pc' = [pc EXCEPT ![t] = "done"]
    /\ written' = [written EXCEPT ![t] = @ + 1]
    /\ usernameCalls' = [usernameCalls EXCEPT ![t] = UsernameCalls(src[t])]
    /\ isMaxFileSizeOver' =
          [isMaxFileSizeOver EXCEPT ![t] = FileSizeOver(src[t], maxFileSize[Chan(t)])]
    /\ allMaxFileSizeOver' =
          (allMaxFileSizeOver \/ FileSizeOver(src[t], maxFileSize[Chan(t)]))
    /\ UNCHANGED <<faults, inputs, catVars, dest, nextId, run, hist, messages, idx,
                   newMessages, sendMessage, cause, issued>>

\* buildMessageFile: the loop throws; the catch returns status "failed"
\* and createMessageFile is not reached.
BuildFail(t) ==
    /\ run = "build" /\ pc[t] = "build"
    /\ ~BuildOk(src[t])
    /\ Fail(t, "build")
    /\ usernameCalls' = [usernameCalls EXCEPT ![t] = UsernameCalls(src[t])]
    /\ UNCHANGED <<faults, inputs, catVars, isMaxFileSizeOver, allMaxFileSizeOver, disk, dest, nextId, run, hist, messages, idx, newMessages,
                   sendMessage, issued, written>>

\* The command returns once every task has settled.
EndRun ==
    /\ run # "idle" /\ Quiet
    /\ hist' = Append(hist, <<run, RunStatus>>)
    /\ run' = "idle"
    /\ pc' = [t \in Tasks |-> "none"]
    /\ messages' = [t \in Tasks |-> <<>>]
    /\ idx' = [t \in Tasks |-> 0]
    /\ newMessages' = [t \in Tasks |-> <<>>]
    /\ sendMessage' = [t \in Tasks |-> NoId]
    /\ cause' = [t \in Tasks |-> "none"]
    /\ issued' = [t \in Tasks |-> 0]
    /\ written' = [t \in Tasks |-> 0]
    /\ UNCHANGED <<faults, inputs, buildOut, catVars, disk, dest, nextId>>

\* getMessageFile fails (access or readFile throws): status "failed".
ReadFail(t) ==
    /\ run \in {"deploy", "delete"} /\ pc[t] = "read"
    /\ ~disk[t].exists
    /\ Fail(t, "read")
    /\ UNCHANGED <<faults, inputs, buildOut, catVars, disk, dest, nextId, run, hist, messages, idx, newMessages,
                   sendMessage, issued, written>>

\* ------------------------------------------------------ deployAllMessage
\* The files a channel's task begins with: `for (const messageFilePath of
\* channel.discord.message_file_paths)` awaits one file before the next.
DeployStartsAll == RealTasks
DeployStarts == {t \in RealTasks : FileNo(t) = 1}

StartDeploy ==
    /\ CanStart
    /\ run' = "deploy"
    /\ pc' = [t \in Tasks |-> IF t \in DeployStarts THEN "read"
                              ELSE IF t \in RealTasks THEN "pending" ELSE "none"]
    /\ UNCHANGED <<faults, inputs, buildOut, catVars, disk, dest, nextId, hist, messages, idx, newMessages,
                   sendMessage, cause, issued, written>>

\* The record with the fields the destination assigned.
StampWithoutAuthor(m, id, c) ==
    [m EXCEPT !.message_id = id, !.channel_id = c, !.guild_id = 1, !.timestamp = id]
Stamp(m, id, c) ==
    [m EXCEPT !.message_id = id, !.channel_id = c, !.guild_id = 1,
              !.timestamp = id, !.anthor = "bot"]

\* The records deployMessage pushes for a pinned record: the one stamped from
\* pinMessage first, then the one stamped from sendMessage.
PinnedRecordsSendOnly(m, sendId, pinId, c) == <<Stamp(m, sendId, c)>>
PinnedRecords(m, sendId, pinId, c) == <<Stamp(m, pinId, c), Stamp(m, sendId, c)>>

\* `if (message.is_pinned)`: is the message just sent pinned next?
NeedsPinNever(m) == FALSE
NeedsPin(m) == m.is_pinned

\* The file while deployMessage is in its loop: the loop pushes to
\* newMessages (nm) and writes nothing.
DiskAfterRecordIncremental(t, nm) ==
    [disk EXCEPT ![t] = [exists |-> TRUE, messages |-> nm]]
DiskAfterRecord(t, nm) == disk

\* Does deployMessage enter its for loop (channelGuild is a GuildText channel)?
DeployLoops(c) == chanValid[c]

\* deployMessage is entered with the array read from the file: the first send
\* is issued, or, with nothing to send, createMessageFile.
DeployReadOk(t) ==
    /\ run = "deploy" /\ pc[t] = "read"
    /\ disk[t].exists
    /\ messages' = [messages EXCEPT ![t] = disk[t].messages]
    /\ IF DeployLoops(Chan(t)) /\ disk[t].messages # <<>>
       THEN /\ pc' = [pc EXCEPT ![t] = "send"]
            /\ idx' = [idx EXCEPT ![t] = 1]
            /\ issued' = [issued EXCEPT ![t] = @ + 1]
       ELSE /\ pc' = [pc EXCEPT ![t] = "write"]
            /\ UNCHANGED <<idx, issued>>
    /\ UNCHANGED <<faults, inputs, buildOut, catVars, disk, dest, nextId, run, hist, newMessages, sendMessage,
                   cause, written>>

\* The end of one turn of the loop: the next send, or createMessageFile.
DeployAdvance(t, nm) ==
    /\ newMessages' = [newMessages EXCEPT ![t] = nm]
    /\ disk' = DiskAfterRecord(t, nm)
    /\ IF idx[t] < Len(messages[t])
       THEN /\ idx' = [idx EXCEPT ![t] = @ + 1]
            /\ pc' = [pc EXCEPT ![t] = "send"]
            /\ issued' = [issued EXCEPT ![t] = @ + 1]
       ELSE /\ pc' = [pc EXCEPT ![t] = "write"]
            /\ UNCHANGED <<idx, issued>>

\* channelGuild.send resolves with the message the destination created.
SendOk(t) ==
    /\ run = "deploy" /\ pc[t] = "send"
    /\ LET c == Chan(t)
           id == nextId[c]
           m == messages[t][idx[t]]
       IN /\ dest' = [dest EXCEPT ![c] = Append(@, DestMsg(id, FALSE, NoId, t, idx[t]))]
          /\ nextId' = [nextId EXCEPT ![c] = @ + 1]
          /\ sendMessage' = [sendMessage EXCEPT ![t] = id]
          /\ IF NeedsPin(m)
             THEN /\ pc' = [pc EXCEPT ![t] = "pin"]
                  /\ issued' = [issued EXCEPT ![t] = @ + 1]
                  /\ UNCHANGED <<idx, newMessages, disk>>
             ELSE DeployAdvance(t, Append(newMessages[t], Stamp(m, id, c)))
    /\ UNCHANGED <<faults, inputs, buildOut, catVars, run, hist, messages, cause, written>>

\* channelGuild.send resolves without a message or without a guildId:
\* `throw new Error("Failed to get deploy message result")`.
SendNoResultIgnored(t) ==
    /\ run = "deploy" /\ pc[t] = "send"
    /\ Fault
    /\ cause' = [cause EXCEPT ![t] = "noresult"]
    /\ DeployAdvance(t, Append(newMessages[t], messages[t][idx[t]]))
    /\ UNCHANGED <<inputs, buildOut, catVars, dest, nextId, run, hist, messages, sendMessage, written>>
SendNoResult(t) ==
    /\ run = "deploy" /\ pc[t] = "send"
    /\ Fault
    /\ Fail(t, "noresult")
    /\ UNCHANGED <<inputs, buildOut, catVars, disk, dest, nextId, run, hist, messages, idx, newMessages,
                   sendMessage, issued, written>>

\* channelGuild.send rejects (network error, rate limit).
SendFailRetried(t) ==
    /\ run = "deploy" /\ pc[t] = "send"
    /\ Fault
    /\ issued' = [issued EXCEPT ![t] = @ + 1]
    /\ UNCHANGED <<inputs, buildOut, catVars, disk, dest, nextId, run, hist, pc, messages, idx,
                   newMessages, sendMessage, cause, written>>
SendFail(t) ==
    /\ run = "deploy" /\ pc[t] = "send"
    /\ Fault
    /\ Fail(t, "transient")
    /\ UNCHANGED <<inputs, buildOut, catVars, disk, dest, nextId, run, hist, messages, idx, newMessages,
                   sendMessage, issued, written>>

\* sendMessage.pin resolves: the message is pinned and the destination adds
\* the pin confirmation, an entry of the timeline with its own id.
PinOk(t) ==
    /\ run = "deploy" /\ pc[t] = "pin"
    /\ LET c == Chan(t)
           pid == nextId[c]
           m == messages[t][idx[t]]
       IN /\ dest' = [dest EXCEPT ![c] =
                        Append(SetPinned(@, sendMessage[t], TRUE),
                               DestMsg(pid, TRUE, sendMessage[t], t, idx[t]))]
          /\ nextId' = [nextId EXCEPT ![c] = @ + 1]
          /\ DeployAdvance(t, newMessages[t] \o PinnedRecords(m, sendMessage[t], pid, c))
    /\ UNCHANGED <<faults, inputs, buildOut, catVars, run, hist, messages, sendMessage, cause, written>>

\* sendMessage.pin resolves without a message or without a guildId.
PinNoResult(t) ==
    /\ run = "deploy" /\ pc[t] = "pin"
    /\ Fault
    /\ Fail(t, "noresult")
    /\ UNCHANGED <<inputs, buildOut, catVars, disk, dest, nextId, run, hist, messages, idx, newMessages,
                   sendMessage, issued, written>>

\* sendMessage.pin rejects.
PinFail(t) ==
    /\ run = "deploy" /\ pc[t] = "pin"
    /\ Fault
    /\ Fail(t, "transient")
    /\ UNCHANGED <<inputs, buildOut, catVars, disk, dest, nextId, run, hist, messages, idx, newMessages,
                   sendMessage, issued, written>>

\* What createMessageFile writes at the end of deployMessage.
DeployFileContent(t) == newMessages[t]

\* createMessageFile succeeds: deployMessage returns "success" and the
\* channel's task goes on to its next file.
WriteOk(t) ==
    /\ run = "deploy" /\ pc[t] = "write"
    /\ disk' = [disk EXCEPT ![t] = [exists |-> TRUE, messages |-> DeployFileContent(t)]]
    /\ written' = [written EXCEPT ![t] = @ + 1]
    /\ pc' = [u \in Tasks |->
                IF u = t THEN "done"
                ELSE IF u = <<Chan(t), FileNo(t) + 1>> /\ u \in RealTasks /\ pc[u] = "pending"
                     THEN "read"
                     ELSE pc[u]]
    /\ UNCHANGED <<faults, inputs, buildOut, catVars, dest, nextId, run, hist, messages, idx, newMessages,
                   sendMessage, cause, issued>>

\* createMessageFile fails (mkdir or writeFile throws).
WriteFail(t) ==
    /\ run = "deploy" /\ pc[t] = "write"
    /\ Fault
    /\ Fail(t, "write")
    /\ UNCHANGED <<inputs, buildOut, catVars, disk, dest, nextId, run, hist, messages, idx, newMessages,
                   sendMessage, issued, written>>

\* ------------------------------------------------------ deleteAllMessage
\* Every file of every channel is handled concurrently (Promise.all over the
\* channels and, in each, over message_file_paths).
DeleteStarts == RealTasks

StartDelete ==
    /\ CanStart
    /\ run' = "delete"
    /\ pc' = [t \in Tasks |-> IF t \in DeleteStarts THEN "read" ELSE "none"]
    /\ UNCHANGED <<faults, inputs, buildOut, catVars, disk, dest, nextId, hist, messages, idx, newMessages,
                   sendMessage, cause, issued, written>>

\* `if (message.message_id)`: the index of the first record from i on that
\* has a destination id; Len(msgs) + 1 when there is none.
RECURSIVE NextDel(_, _)
NextDel(msgs, i) ==
    IF i > Len(msgs) THEN i
    ELSE IF msgs[i].message_id # NoId THEN i
         ELSE NextDel(msgs, i + 1)

\* The call deleteMessage issues first for a record: unpin when it is pinned.
FirstCallDelete(m) == "delete"
FirstCall(m) == IF m.is_pinned THEN "unpin" ELSE "delete"

\* The loop of deleteMessage goes to record NextDel(msgs, i) and issues its
\* first call, or ends: deleteMessage returns "success".
DeleteGoto(t, msgs, i) ==
    LET j == NextDel(msgs, i)
    IN IF j <= Len(msgs)
       THEN /\ idx' = [idx EXCEPT ![t] = j]
            /\ pc' = [pc EXCEPT ![t] = FirstCall(msgs[j])]
            /\ issued' = [issued EXCEPT ![t] = @ + 1]
       ELSE /\ pc' = [pc EXCEPT ![t] = "done"]
            /\ UNCHANGED <<idx, issued>>

\* Does deleteMessage enter its for loop (channelGuild is a GuildText channel)?
DeleteLoops(c) == chanValid[c]

DeleteReadOk(t) ==
    /\ run = "delete" /\ pc[t] = "read"
    /\ disk[t].exists
    /\ messages' = [messages EXCEPT ![t] = disk[t].messages]
    /\ IF DeleteLoops(Chan(t))
       THEN DeleteGoto(t, disk[t].messages, 1)
       ELSE /\ pc' = [pc EXCEPT ![t] = "done"]
            /\ UNCHANGED <<idx, issued>>
    /\ UNCHANGED <<faults, inputs, buildOut, catVars, disk, dest, nextId, run, hist, newMessages, sendMessage,
                   cause, written>>

\* The id the pending unpin or delete call was given.
Target(t) == messages[t][idx[t]].message_id

\* channelGuild.messages.unpin resolves; the delete of the same id is issued.
UnpinOk(t) ==
    /\ run = "delete" /\ pc[t] = "unpin"
    /\ Exists(Chan(t), Target(t))
    /\ dest' = [dest EXCEPT ![Chan(t)] = SetPinned(@, Target(t), FALSE)]
    /\ pc' = [pc EXCEPT ![t] = "delete"]
    /\ issued' = [issued EXCEPT ![t] = @ + 1]
    /\ UNCHANGED <<faults, inputs, buildOut, catVars, disk, nextId, run, hist, messages, idx, newMessages,
                   sendMessage, cause, written>>

\* What deleteMessage does with the destination's "Unknown Message" answer
\* to an unpin or a delete: the rejection reaches the catch.
OnUnknownMessage(t) ==
    /\ Fail(t, "unknown")
    /\ UNCHANGED <<idx, issued>>

\* channelGuild.messages.unpin rejects: the destination has no such message.
UnpinUnknown(t) ==
    /\ run = "delete" /\ pc[t] = "unpin"
    /\ ~Exists(Chan(t), Target(t))
    /\ OnUnknownMessage(t)
    /\ UNCHANGED <<faults, inputs, buildOut, catVars, disk, dest, nextId, run, hist, messages, newMessages,
                   sendMessage, written>>

\* channelGuild.messages.unpin rejects for another reason.
UnpinFail(t) ==
    /\ run = "delete" /\ pc[t] = "unpin"
    /\ Fault
    /\ Fail(t, "transient")
    /\ UNCHANGED <<inputs, buildOut, catVars, disk, dest, nextId, run, hist, messages, idx, newMessages,
                   sendMessage, issued, written>>

\* channelGuild.messages.delete resolves; the loop goes to the next record.
DeleteOk(t) ==
    /\ run = "delete" /\ pc[t] = "delete"
    /\ Exists(Chan(t), Target(t))
    /\ dest' = [dest EXCEPT ![Chan(t)] = Remove(@, Target(t))]
    /\ DeleteGoto(t, messages[t], idx[t] + 1)
    /\ UNCHANGED <<faults, inputs, buildOut, catVars, disk, nextId, run, hist, messages, newMessages,
                   sendMessage, cause, written>>

\* channelGuild.messages.delete rejects: the destination has no such message.
DeleteUnknown(t) ==
    /\ run = "delete" /\ pc[t] = "delete"
    /\ ~Exists(Chan(t), Target(t))
    /\ OnUnknownMessage(t)
    /\ UNCHANGED <<faults, inputs, buildOut, catVars, disk, dest, nextId, run, hist, messages, newMessages,
                   sendMessage, written>>

\* channelGuild.messages.delete rejects for another reason.
DeleteFail(t) ==
    /\ run = "delete" /\ pc[t] = "delete"
    /\ Fault
    /\ Fail(t, "transient")
    /\ UNCHANGED <<inputs, buildOut, catVars, disk, dest, nextId, run, hist, messages, idx, newMessages,
                   sendMessage, issued, written>>

\* ------------------------------------------------------------------ Next
Next ==
    \/ StartBuild
    \/ StartDeploy
    \/ StartDelete
    \/ EndRun
    \/ \E t \in RealTasks : BuildFile(t)
    \/ \E t \in RealTasks : ReadFail(t)
    \/ \E t \in RealTasks : DeployReadOk(t)
    \/ \E t \in RealTasks : SendOk(t)
    \/ \E t \in RealTasks : SendNoResult(t)
    \/ \E t \in RealTasks : SendFail(t)
    \/ \E t \in RealTasks : PinOk(t)
    \/ \E t \in RealTasks : PinNoResult(t)
    \/ \E t \in RealTasks : PinFail(t)
    \/ \E t \in RealTasks : WriteOk(t)
    \/ \E t \in RealTasks : WriteFail(t)
    \/ \E t \in RealTasks : DeleteReadOk(t)
    \/ \E t \in RealTasks : UnpinOk(t)
    \/ \E t \in RealTasks : UnpinUnknown(t)
    \/ \E t \in RealTasks : UnpinFail(t)
    \/ \E t \in RealTasks : DeleteOk(t)
    \/ \E t \in RealTasks : DeleteUnknown(t)
    \/ \E t \in RealTasks : DeleteFail(t)

Spec == Init /\ [][Next]_vars

\* The commands over one channel with one per-day file, every pending await
\* settling in the end: the destination answers a call or the call rejects,
\* and a file operation ends.
LiveInit == Init /\ chanFiles[1] = 1 /\ chanFiles[2] = 0 /\ chanValid[1]

LiveSpec == LiveInit /\ [][Next]_vars /\ WF_vars(Next)

\* ------------------------------------------- inputs of deleteMessage alone
\* Record k of a persisted file: built from a message of user 1, pinned or
\* not, and deployed (with destination id k) or not.
PersistedRecord(k, isPinned, hasId) ==
    LET r == MainRecord(SlackMsg(TsOf(1, k), FALSE, <<>>), isPinned)
    IN IF hasId THEN Stamp(r, k, 1) ELSE r

\* The persisted files deleteMessage is given: up to MaxMsgs records, each
\* with or without destination id.
PersistedFiles ==
    UNION {{[k \in 1..n |-> PersistedRecord(k, p[k], h[k])] :
                p \in [1..n -> BOOLEAN], h \in [1..n -> BOOLEAN]} : n \in 0..MaxMsgs}

\* The destination channel that holds the messages with the ids in S, pinned
\* as the records of file f say.
RECURSIVE DestOf(_, _, _)
DestOf(f, S, k) ==
    IF k > Len(f) THEN <<>>
    ELSE (IF f[k].message_id \in S
          THEN <<[DestMsg(f[k].message_id, FALSE, NoId, <<1, 1>>, k)
                     EXCEPT !.pinned = f[k].is_pinned]>>
          ELSE <<>>) \o DestOf(f, S, k + 1)

\* One channel with one per-day file, which is missing or holds any persisted
\* file; the destination holds some of the messages the file names.
DeleteInit ==
    /\ CatState0
    /\ chanFiles = [c \in Channels |-> IF c = 1 THEN 1 ELSE 0]
    /\ chanValid = [c \in Channels |-> TRUE]
    /\ maxFileSize = [c \in Channels |-> MaxSize]
    /\ src = [t \in Tasks |-> <<>>]
    /\ pinIds = [c \in Channels |-> {}]
    /\ users = <<User(1, NoId)>>
    /\ slackUsers = {}
    /\ nextId = [c \in Channels |-> MaxMsgs + 1]
    /\ run = "idle"
    /\ hist = <<>>
    /\ pc = [t \in Tasks |-> "none"]
    /\ messages = [t \in Tasks |-> <<>>]
    /\ idx = [t \in Tasks |-> 0]
    /\ newMessages = [t \in Tasks |-> <<>>]
    /\ sendMessage = [t \in Tasks |-> NoId]
    /\ cause = [t \in Tasks |-> "none"]
    /\ issued = [t \in Tasks |-> 0]
    /\ written = [t \in Tasks |-> 0]
    /\ faults = 0
    /\ isMaxFileSizeOver = [t \in Tasks |-> FALSE]
    /\ allMaxFileSizeOver = FALSE
    /\ usernameCalls = [t \in Tasks |-> <<>>]
    /\ \E f \in PersistedFiles, e \in BOOLEAN :
          \E S \in SUBSET {f[k].message_id : k \in 1..Len(f)} :
             /\ disk = [t \in Tasks |-> IF t = <<1, 1>> /\ e
                                        THEN [exists |-> TRUE, messages |-> f]
                                        ELSE [exists |-> FALSE, messages |-> <<>>]]
             /\ dest = [c \in Channels |-> IF c = 1 /\ e THEN DestOf(f, S \ {NoId}, 1) ELSE <<>>]

\* The delete command alone, over every input of DeleteInit.
DeleteNext ==
    \/ StartDelete
    \/ EndRun
    \/ \E t \in RealTasks : ReadFail(t)
    \/ \E t \in RealTasks : DeleteReadOk(t)
    \/ \E t \in RealTasks : UnpinOk(t)
    \/ \E t \in RealTasks : UnpinUnknown(t)
    \/ \E t \in RealTasks : UnpinFail(t)
    \/ \E t \in RealTasks : DeleteOk(t)
    \/ \E t \in RealTasks : DeleteUnknown(t)
    \/ \E t \in RealTasks : DeleteFail(t)

DeleteSpec == DeleteInit /\ [][DeleteNext]_vars

\* The build command alone, over every input of BuildInit.
BuildNext ==
    \/ StartBuild
    \/ EndRun
    \/ \E t \in RealTasks : BuildFile(t)
    \/ \E t \in RealTasks : BuildFail(t)

BuildSpec == BuildInit /\ [][BuildNext]_vars

\* ------------------------------------------------- the category commands
\* createCategory and deleteCategory of src/libs/category.mts.  A command is
\* one async function; it loses control at the await of each API call and at
\* the write of the category file.
Category(id, name) == [id |-> id, name |-> name]

\* The arrays createCategory can be given: the k-th category is named k and
\* has no id yet, or the id k of a category made earlier.
CategoryLists ==
    UNION {{[k \in 1..n |-> Category(IF h[k] THEN k ELSE NoId, k)] : h \in [1..n -> BOOLEAN]} :
             n \in 0..MaxCats}

IdsOf(cats) == {cats[k].id : k \in 1..Len(cats)} \ {NoId}

\* The ids the destination assigned while the category commands ran.
CreatedIds == {i \in 1..(catNextId - 1) : i > MaxCats}

\* Any array of categories; of the ids the array names the guild holds some.
CatInit ==
    /\ InitState
    /\ chanFiles = [c \in Channels |-> 0]
    /\ chanValid = [c \in Channels |-> TRUE]
    /\ maxFileSize = [c \in Channels |-> MaxSize]
    /\ src = [t \in Tasks |-> <<>>]
    /\ pinIds = [c \in Channels |-> {}]
    /\ users = <<>>
    /\ slackUsers = {}
    /\ categories \in CategoryLists
    /\ guild \in SUBSET IdsOf(categories)
    /\ catFile = [exists |-> FALSE, categories |-> <<>>]
    /\ catNextId = MaxCats + 1
    /\ catRun = "idle"
    /\ catHist = <<>>
    /\ catPc = "none"
    /\ catList = <<>>
    /\ catIdx = 0
    /\ newCategories = <<>>

\* createCategory is called with the array: the loop starts at its first
\* category, or goes straight to the file when the array is empty.
CatStartCreate ==
    /\ catRun = "idle"
    /\ Len(catHist) < MaxCatRuns
    /\ catRun' = "create"
    /\ newCategories' = <<>>
    /\ catIdx' = 1
    /\ catPc' = IF categories = <<>> THEN "write" ELSE "create"
    /\ UNCHANGED <<msgVars, categories, catFile, guild, catNextId, catHist, catList>>

\* After the last category the command writes the file.
CatAfter(cats) == IF catIdx < Len(cats) THEN catPc ELSE "write"

\* channels.create resolves: the guild holds a new category, and its id and
\* the category's name are pushed on newCategories.
CatCreateOk ==
    /\ catRun = "create"
    /\ catPc = "create"
    /\ guild' = guild \cup {catNextId}
    /\ catNextId' = catNextId + 1
    /\ newCategories' = Append(newCategories, Category(catNextId, categories[catIdx].name))
    /\ catIdx' = catIdx + 1
    /\ catPc' = CatAfter(categories)
    /\ UNCHANGED <<msgVars, categories, catFile, catRun, catHist, catList>>

\* An API call rejects: the catch block returns status "failed".
CatApiFail ==
    /\ catPc \in {"create", "delete"}
    /\ catPc' = "failed"
    /\ UNCHANGED <<msgVars, categories, catFile, guild, catNextId, catRun, catHist, catList,
                   catIdx, newCategories>>

\* What createCategory hands to createCategoryFile: its parameter.
CreateFileContent == categories

\* What deleteCategory hands to createCategoryFile.
DeleteFileContent == newCategories

\* The write of the category file succeeds and the command returns "success".
CatWriteOk ==
    /\ catPc = "write"
    /\ catFile' = [exists |-> TRUE,
                   categories |-> IF catRun = "create" THEN CreateFileContent
                                  ELSE DeleteFileContent]
    /\ catPc' = "done"
    /\ UNCHANGED <<msgVars, categories, guild, catNextId, catRun, catHist, catList, catIdx,
                   newCategories>>

\* createCategoryFile returns "failed": so does the command, the file is as before.
CatWriteFail ==
    /\ catPc = "write"
    /\ catPc' = "failed"
    /\ UNCHANGED <<msgVars, categories, catFile, guild, catNextId, catRun, catHist, catList,
                   catIdx, newCategories>>

\* The categories the loop of deleteCategory passes without an API call,
\* starting at index i: those without an id, pushed as they are.
RECURSIVE SkipNoId(_, _)
SkipNoId(cats, i) ==
    IF i <= Len(cats) /\ cats[i].id = NoId THEN SkipNoId(cats, i + 1) ELSE i

\* The state of deleteCategory's loop once it stands at index i of cats with
\* done pushed: the next category with an id, or the write of the file.
CatDeleteAt(cats, i, done) ==
    LET j == SkipNoId(cats, i) IN
    /\ catIdx' = j
    /\ newCategories' = done \o SubSeq(cats, i, j - 1)
    /\ catPc' = IF j <= Len(cats) THEN "delete" ELSE "write"

\* deleteCategory is called with the categories read from the category file.
CatStartDelete ==
    /\ catRun = "idle"
    /\ Len(catHist) < MaxCatRuns
    /\ catFile.exists
    /\ catRun' = "delete"
    /\ catList' = catFile.categories
    /\ CatDeleteAt(catFile.categories, 1, <<>>)
    /\ UNCHANGED <<msgVars, categories, catFile, guild, catNextId, catHist>>

\* The category file cannot be read: getCategoryFile returns "failed" and
\* nothing is deleted.
CatReadFail ==
    /\ catRun = "idle"
    /\ Len(catHist) < MaxCatRuns
    /\ ~catFile.exists
    /\ catRun' = "delete"
    /\ catPc' = "failed"
    /\ UNCHANGED <<msgVars, categories, catFile, guild, catNextId, catHist, catList, catIdx,
                   newCategories>>

\* channels.delete resolves: the category is gone, its id is cleared and the
\* category is pushed on newCategories.
CatDeleteOk ==
    /\ catRun = "delete"
    /\ catPc = "delete"
    /\ catList[catIdx].id \in guild
    /\ guild' = guild \ {catList[catIdx].id}
    /\ catList' = [catList EXCEPT ![catIdx].id = NoId]
    /\ CatDeleteAt(catList', catIdx + 1, Append(newCategories, catList'[catIdx]))
    /\ UNCHANGED <<msgVars, categories, catFile, catNextId, catRun, catHist>>

\* The command has returned: its status is recorded.
CatEnd ==
    /\ catPc \in {"done", "failed"}
    /\ catHist' = Append(catHist, <<catRun, catPc>>)
    /\ catRun' = "idle"
    /\ catPc' = "none"
    /\ catList' = <<>>
    /\ catIdx' = 0
    /\ newCategories' = <<>>
    /\ UNCHANGED <<msgVars, categories, catFile, guild, catNextId>>

CatNext ==
    \/ CatStartCreate
    \/ CatCreateOk
    \/ CatApiFail
    \/ CatWriteOk
    \/ CatWriteFail
    \/ CatStartDelete
    \/ CatReadFail
    \/ CatDeleteOk
    \/ CatEnd

CategorySpec == CatInit /\ [][CatNext]_vars

\* ================================================================ claims
CurRun == Len(hist) + 1

\* The positions in channel c of the destination entries that run r created
\* for record i of file f (system: the pin confirmations).
Entries(c, r, f, i, system) ==
    {k \in 1..Len(dest[c]) :
        /\ dest[c][k].run = r /\ dest[c][k].file = f
        /\ dest[c][k].rec = i /\ dest[c][k].system = system}

InFlight(c) == {t \in RealTasks : Chan(t) = c /\ pc[t] \in {"send", "pin", "unpin", "delete"}}

Deploying(t) == run = "deploy" /\ t \in RealTasks

\* C1: the sends of one per-day file reach the destination in array order:
\* the entries one run created for a file stand in the order of the records
\* (a record's message before its pin confirmation), and while the send or pin
\* of record j is in flight every record i < j has been sent, and pinned when
\* it is a pinned record.
C1_SendsInFileOrder ==
    /\ \A c \in Channels : \A p, q \in 1..Len(dest[c]) :
          (p < q /\ dest[c][p].run = dest[c][q].run /\ dest[c][p].file = dest[c][q].file)
             => \/ dest[c][p].rec < dest[c][q].rec
                \/ /\ dest[c][p].rec = dest[c][q].rec
                   /\ ~dest[c][p].system /\ dest[c][q].system
    /\ \A t \in Tasks :
          (Deploying(t) /\ pc[t] \in {"send", "pin"})
             => \A i \in 1..(idx[t] - 1) :
                   /\ Cardinality(Entries(Chan(t), CurRun, FileNo(t), i, FALSE)) = 1
                   /\ messages[t][i].is_pinned
                         => Cardinality(Entries(Chan(t), CurRun, FileNo(t), i, TRUE)) = 1

\* Two source messages of one file, the first one pinned, have both been
\* sent and the file is about to be written.
C1_Witness ==
    \E t \in Tasks :
        /\ Deploying(t) /\ pc[t] = "write" /\ Len(src[t]) = 2
        /\ messages[t][1].is_pinned
        /\ \A i \in 1..Len(messages[t]) :
              Entries(Chan(t), CurRun, FileNo(t), i, FALSE) # {}

\* C2: during deployAllMessage a destination channel never has more than
\* one send or pin call in flight, over all the per-day files of the channel.
C2_OneCallPerChannel ==
    run = "deploy" => \A c \in Channels : Cardinality(InFlight(c)) <= 1

\* The second file of a channel is being sent after the first one was sent.
C2_Witness ==
    \E c \in Channels :
        /\ run = "deploy" /\ chanFiles[c] = 2
        /\ pc[<<c, 1>>] = "done" /\ pc[<<c, 2>>] = "send"
        /\ Entries(c, CurRun, 1, 1, FALSE) # {}

\* C3: deployMessage overwrites the per-day file once, with the fully updated
\* array, and only after every message of the file has been sent: the file is
\* never written while a record of it is unsent.
C3_WrittenOnceAfterAllSent ==
    \A t \in Tasks :
        Deploying(t) =>
            /\ written[t] <= 1
            /\ pc[t] = "done" => written[t] = 1
            /\ written[t] = 1 =>
                  \A i \in 1..Len(messages[t]) :
                      Entries(Chan(t), CurRun, FileNo(t), i, FALSE) # {}

\* C4: in one deployment run of a per-day file every record of the file is
\* sent exactly once: when deployMessage has succeeded the destination holds
\* exactly one message for each record of the file.
C4_EveryRecordSentOnce ==
    \A t \in Tasks :
        (Deploying(t) /\ pc[t] = "done") =>
            \A i \in 1..Len(messages[t]) :
                Cardinality(Entries(Chan(t), CurRun, FileNo(t), i, FALSE)) = 1

\* The position of the record with destination id `id` in array a (0: none).
PosOf(a, id) ==
    IF \E k \in 1..Len(a) : a[k].message_id = id
    THEN CHOOSE k \in 1..Len(a) : a[k].message_id = id
    ELSE 0

\* C5: for a pinned record the persisted array holds, directly after the
\* record of the message, the record of its pin confirmation, with the id the
\* pin call returned.
C5_PinRecordFollowsMessage ==
    \A t \in Tasks :
        (Deploying(t) /\ pc[t] = "done") =>
            \A k \in 1..Len(dest[Chan(t)]) :
                LET d == dest[Chan(t)][k]
                IN (d.run = CurRun /\ d.file = FileNo(t) /\ d.system) =>
                      /\ PosOf(disk[t].messages, d.target) > 0
                      /\ PosOf(disk[t].messages, d.id) = PosOf(disk[t].messages, d.target) + 1

\* C6: a send or pin call that fails transiently is tried again, so one
\* transient failure does not abort the deployment of the file.
C6_TransientFailureRetried ==
    \A t \in Tasks : ~(Deploying(t) /\ pc[t] = "failed" /\ cause[t] = "transient")

\* C7: when a send or pin ends without a result, deployMessage fails for the
\* file, and from then on no send or pin is issued for the file or for the
\* later files of the channel.
C7_NoResultAbortsFile ==
    [][\A t \in Tasks :
          (run = "deploy" /\ run' = "deploy" /\ cause[t] = "noresult")
             => /\ pc[t] = "failed"
                /\ \A u \in Tasks :
                      (Chan(u) = Chan(t) /\ FileNo(u) >= FileNo(t))
                         => issued'[u] = issued[u] /\ pc'[u] = pc[u]]_vars

\* A send ended without a result while records of the file were still unsent.
C7_Witness ==
    \E t \in Tasks :
        /\ Deploying(t) /\ pc[t] = "failed" /\ cause[t] = "noresult"
        /\ idx[t] < Len(messages[t])

\* The file of task t holds a record with destination id `id`.
Persisted(t, id) == \E k \in 1..Len(disk[t].messages) : disk[t].messages[k].message_id = id

AbortedBySendOrPin(t) ==
    Deploying(t) /\ pc[t] = "failed" /\ cause[t] \in {"noresult", "transient"}

\* C8 as stated: after a fatal error the messages sent so far are persisted
\* in the intermediate file with their destination ids.
C8_SentSoFarPersisted ==
    \A t \in Tasks :
        AbortedBySendOrPin(t) =>
            \A k \in 1..Len(dest[Chan(t)]) :
                (dest[Chan(t)][k].run = CurRun /\ dest[Chan(t)][k].file = FileNo(t))
                   => Persisted(t, dest[Chan(t)][k].id)

\* C8 as amended: after a fatal error of a send or pin the intermediate file
\* is as it was read at the start of the run; no id the destination assigned
\* in the aborted run is in it.
C8_AbortLeavesFileUnchanged ==
    \A t \in Tasks :
        AbortedBySendOrPin(t) =>
            /\ disk[t].messages = messages[t]
            /\ \A k \in 1..Len(dest[Chan(t)]) :
                  (dest[Chan(t)][k].run = CurRun /\ dest[Chan(t)][k].file = FileNo(t))
                     => ~Persisted(t, dest[Chan(t)][k].id)

\* A file was aborted after one of its messages had been sent.
C8_Witness ==
    \E t \in Tasks :
        /\ AbortedBySendOrPin(t)
        /\ Entries(Chan(t), CurRun, FileNo(t), 1, FALSE) # {}

Ok(cmd) == <<cmd, "success">>

\* C9: after build, deploy and delete, each successful and in this order,
\* the destination holds no message the deployment created, pin
\* confirmations included.
C9_RoundTripEmpty ==
    \A n \in 3..Len(hist) :
        (run = "idle" /\ n = Len(hist)
           /\ hist[n - 2] = Ok("build") /\ hist[n - 1] = Ok("deploy") /\ hist[n] = Ok("delete"))
        => \A c \in Channels : \A k \in 1..Len(dest[c]) : dest[c][k].run # n - 1

\* The round trip ended for a channel whose deployment had sent a pinned
\* message (three ids or more were assigned) and nothing is left of it.
C9_Witness ==
    /\ run = "idle"
    /\ hist = <<Ok("build"), Ok("deploy"), Ok("delete")>>
    /\ \E c \in Channels : chanValid[c] /\ pinIds[c] # {} /\ nextId[c] >= 3 /\ dest[c] = <<>>

\* C10: the destination's "unknown message" answer to an unpin or a delete
\* is a success: deleteMessage never fails because a message is already gone.
C10_UnknownMessageIsSuccess ==
    \A t \in Tasks : ~(run = "delete" /\ pc[t] = "failed" /\ cause[t] = "unknown")

\* C11: deleteMessage needs a destination id on every record: it does not
\* report success for a file one of whose records has no destination id.
C11_MissingIdFailsDelete ==
    \A t \in RealTasks :
        (run = "delete" /\ pc[t] = "done" /\ DeleteLoops(Chan(t))) =>
            \A k \in 1..Len(messages[t]) : messages[t][k].message_id # NoId

\* C12: while the delete call of a pinned record is in flight the unpin of
\* the same message has completed: the destination no longer holds the
\* message as pinned.
C12_UnpinBeforeDelete ==
    \A t \in RealTasks :
        (run = "delete" /\ pc[t] = "delete" /\ messages[t][idx[t]].is_pinned) =>
            \A k \in 1..Len(dest[Chan(t)]) :
                dest[Chan(t)][k].id = Target(t) => ~dest[Chan(t)][k].pinned

\* The delete of a message the deployment had sent and pinned is in flight
\* and the message is still in the destination, no longer pinned.
C12_Witness ==
    \E t \in RealTasks :
        /\ run = "delete" /\ pc[t] = "delete" /\ messages[t][idx[t]].is_pinned
        /\ \E k \in 1..Len(dest[Chan(t)]) :
              /\ dest[Chan(t)][k].id = Target(t)
              /\ ~dest[Chan(t)][k].system
              /\ ~dest[Chan(t)][k].pinned

\* The aggregate operation: Promise.all rejects with the first task that
\* rejects, and deployAllMessage / deleteAllMessage return status "failed".
Rejected == run \in {"deploy", "delete"} /\ \E t \in RealTasks : pc[t] = "failed"

C19_FilesRunConcurrently ==
    run = "deploy" => \A t \in RealTasks : pc[t] # "pending"

\* C19 as amended: the channels run concurrently (the pending send of a file
\* can complete whatever the tasks of the other channels are doing), and the
\* files of one channel are deployed one after the other, in the order of
\* message_file_paths: a file is read only when the previous one is written.
C19_FilesOneAfterAnother ==
    run = "deploy" =>
        /\ \A t \in RealTasks : pc[t] = "send" => ENABLED SendOk(t)
        /\ \A t, u \in RealTasks :
              (Chan(t) = Chan(u) /\ FileNo(t) < FileNo(u) /\ pc[u] # "pending")
                 => pc[t] = "done"

\* The second file of a channel waits while the first one, whose message was
\* sent, is about to be written.
C19_Witness ==
    \E t, u \in RealTasks :
        /\ run = "deploy"
        /\ Chan(t) = Chan(u) /\ FileNo(t) < FileNo(u)
        /\ pc[t] = "write" /\ pc[u] = "pending"
        /\ Entries(Chan(t), CurRun, FileNo(t), 1, FALSE) # {}

\* The record of the file read at the start of the run from which the
\* persisted record r of task t was derived: the destination entry with the
\* id of r names it.
DerivedFrom(t, r) ==
    {messages[t][dest[Chan(t)][k].rec] :
        k \in {q \in 1..Len(dest[Chan(t)]) :
                  /\ dest[Chan(t)][q].id = r.message_id
                  /\ dest[Chan(t)][q].run = CurRun
                  /\ dest[Chan(t)][q].file = FileNo(t)}}

\* C20: after deployMessage succeeded every record of the persisted file has
\* a destination message id, channel id, guild id, timestamp and an author of
\* type "bot", and its slack sub-record, content, embeds, files and pin flag
\* are those of the record it was derived from.
C20_StampedAndSourceKept ==
    \A t \in RealTasks :
        (run = "deploy" /\ pc[t] = "done") =>
            \A k \in 1..Len(disk[t].messages) :
                LET r == disk[t].messages[k]
                IN /\ r.message_id # NoId /\ r.channel_id = Chan(t) /\ r.guild_id # NoId
                   /\ r.timestamp # 0 /\ r.anthor = "bot"
                   /\ Cardinality(DerivedFrom(t, r)) = 1
                   /\ \A m \in DerivedFrom(t, r) :
                         /\ r.slack = m.slack /\ r.content = m.content
                         /\ r.files = m.files /\ r.embeds = m.embeds
                         /\ r.is_pinned = m.is_pinned

\* A file with a pinned message and a companion record with an upload was
\* deployed: four records are persisted.
C20_Witness ==
    \E t \in RealTasks :
        /\ run = "deploy" /\ pc[t] = "done"
        /\ Len(disk[t].messages) >= 4
        /\ \E k \in 1..Len(disk[t].messages) : disk[t].messages[k].files # <<>>

\* ------------------------------------------------- claims about the build
\* The build of file t has ended, with the file written or with a failure.
Built(t) == run = "build" /\ pc[t] \in {"done", "failed"}

\* Nothing was written for file t.
NoFile(t) == ~disk[t].exists /\ written[t] = 0

\* The main records of the file of t with the source timestamp of message m.
MainsOf(t, m) ==
    {k \in 1..Len(disk[t].messages) :
        disk[t].messages[k].embeds /\ disk[t].messages[k].slack.timestamp = m.ts}

UserSetIds == {users[i].id : i \in 1..Len(users)}

NoSender(m) == m.user = NoId /\ m.app_id = NoId

\* C14: when a message of the source file has no sender token or no
\* timestamp the build of the file fails and writes no file.
C14_MissingFieldFailsBuild ==
    \A t \in RealTasks :
        (Built(t) /\ \E j \in 1..Len(src[t]) : src[t][j].ts = NoId \/ NoSender(src[t][j]))
           => pc[t] = "failed" /\ NoFile(t)

\* The companion records of the file of t with the source timestamp of m.
CompanionsOf(t, m) ==
    {k \in 1..Len(disk[t].messages) :
        ~disk[t].messages[k].embeds /\ disk[t].messages[k].slack.timestamp = m.ts}

InSeq(x, seq) == \E i \in 1..Len(seq) : seq[i] = x

\* C15: in a built file an attachment of a size at or above the limit is in
\* the files list of no record and its URL is in the content of the companion
\* record of its message; an attachment of a size below the limit is in the
\* files list of the companion record and its URL is in no content.
C15_AttachmentsPartitioned ==
    \A t \in RealTasks :
        (Built(t) /\ pc[t] = "done") =>
            \A j \in 1..Len(src[t]) : \A a \in 1..Len(src[t][j].files) :
                LET f == src[t][j].files[a]
                    recs == disk[t].messages
                    comps == CompanionsOf(t, src[t][j])
                IN /\ f.size >= maxFileSize[Chan(t)] =>
                        /\ \A k \in 1..Len(recs) : ~InSeq(f.url_private, recs[k].files)
                        /\ \E q \in comps : InSeq(f.url_private, recs[q].content.urls)
                   /\ f.size < maxFileSize[Chan(t)] =>
                        /\ \E q \in comps : InSeq(f.url_private, recs[q].files)
                        /\ \A k \in 1..Len(recs) : ~InSeq(f.url_private, recs[k].content.urls)

\* The records the claim expects for the source messages, as pairs of the
\* source timestamp and the kind (TRUE: main record, FALSE: companion): one
\* main record per message, then one companion when it has an attachment.
RECURSIVE ExpectedKinds(_)
ExpectedKinds(msgs) ==
    IF msgs = <<>> THEN <<>>
    ELSE <<<<Head(msgs).ts, TRUE>>>> \o
         (IF Len(Head(msgs).files) >= 1 THEN <<<<Head(msgs).ts, FALSE>>>> ELSE <<>>) \o
         ExpectedKinds(Tail(msgs))

KindsOf(recs) == [k \in 1..Len(recs) |-> <<recs[k].slack.timestamp, recs[k].embeds>>]

\* C16: the built file holds, for each source message in input order, one
\* main record, directly followed by one companion record exactly when the
\* message has at least one attachment.
C16_MainThenCompanion ==
    \A t \in RealTasks :
        (Built(t) /\ pc[t] = "done") => KindsOf(disk[t].messages) = ExpectedKinds(src[t])

\* C17: every record of a built file has is_pinned true exactly when the
\* source timestamp of its message is in the pin set of the channel, and every
\* source message has its record.
C17_PinnedIffInPinSet ==
    \A t \in RealTasks :
        (Built(t) /\ pc[t] = "done") =>
            /\ \A j \in 1..Len(src[t]) : MainsOf(t, src[t][j]) # {}
            /\ \A k \in 1..Len(disk[t].messages) :
                  disk[t].messages[k].is_pinned
                     <=> disk[t].messages[k].slack.timestamp \in pinIds[Chan(t)]

\* A file of two messages was built: the first, with an attachment, is in the
\* pin set and both its records are pinned; the second is not.
C17_Witness ==
    \E t \in RealTasks :
        /\ Built(t) /\ pc[t] = "done" /\ Len(src[t]) = 2
        /\ pinIds[Chan(t)] = {src[t][1].ts}
        /\ Len(src[t][1].files) = 1
        /\ Len(disk[t].messages) = 3
        /\ disk[t].messages[1].is_pinned /\ disk[t].messages[2].is_pinned
        /\ ~disk[t].messages[3].is_pinned

\* How often x stands in the sequence seq.
Count(x, seq) == Cardinality({i \in 1..Len(seq) : seq[i] = x})

\* How often the URL stands in the files lists (inline uploads), and in the
\* contents (links), of the records of the file of t.
RECURSIVE SumOver(_, _, _)
SumOver(recs, url, inFiles) ==
    IF recs = <<>> THEN 0
    ELSE Count(url, IF inFiles THEN Head(recs).files ELSE Head(recs).content.urls)
         + SumOver(Tail(recs), url, inFiles)

\* C21: the partition of the attachments loses nothing: in a built file the
\* URL of every attachment, of whatever size, stands in exactly one of the
\* two lists: once among the inline uploads when its size is below the limit,
\* once among the links otherwise.
C21_PartitionLosesNothing ==
    \A t \in RealTasks :
        (Built(t) /\ pc[t] = "done") =>
            \A j \in 1..Len(src[t]) : \A a \in 1..Len(src[t][j].files) :
                LET f == src[t][j].files[a]
                    up == SumOver(disk[t].messages, f.url_private, TRUE)
                    link == SumOver(disk[t].messages, f.url_private, FALSE)
                IN IF f.size < maxFileSize[Chan(t)]
                   THEN up = 1 /\ link = 0
                   ELSE up = 0 /\ link = 1

\* The send request deployMessage composes for record r has something to
\* send: embeds, or files, or (without embeds) a content that is not empty.
Sendable(r) ==
    \/ r.embeds
    \/ r.files # <<>>
    \/ r.content.text # 0 \/ r.content.names # <<>> \/ r.content.urls # <<>>

\* C30: every record of a built file is sendable.
C30_EveryRecordSendable ==
    \A t \in RealTasks :
        (Built(t) /\ pc[t] = "done") =>
            \A k \in 1..Len(disk[t].messages) : Sendable(disk[t].messages[k])

\* The records of the file of t with the source timestamp of message m.
RecordsOf(t, m) == MainsOf(t, m) \cup CompanionsOf(t, m)

\* C23: the slack sub-record names the original sender: for a message with
\* user u and without app_id, u being a user of the array, every record of the
\* message has u as its author.
C23_SourceNamesSender ==
    \A t \in RealTasks :
        (Built(t) /\ pc[t] = "done") =>
            \A j \in 1..Len(src[t]) :
                LET m == src[t][j]
                IN (m.user # NoId /\ m.app_id = NoId /\ m.user \in UserSetIds) =>
                      \A k \in RecordsOf(t, m) : disk[t].messages[k].slack.anthor = m.user

\* The messages (not the pin confirmations) run r sent for the file of t.
SentIn(t, r) ==
    {k \in 1..Len(dest[Chan(t)]) :
        /\ dest[Chan(t)][k].run = r /\ dest[Chan(t)][k].file = FileNo(t)
        /\ ~dest[Chan(t)][k].system}

\* C28: the pin confirmations deployMessage persists are skipped by a later
\* deployMessage: a deployment of an already deployed file sends as many
\* messages as the deployment before it and leaves the file as long as it was.
C28_RedeploySendsTheSame ==
    \A t \in RealTasks :
        (/\ run = "deploy" /\ pc[t] = "done" /\ DeployLoops(Chan(t))
         /\ CurRun >= 3 /\ hist[CurRun - 1] = Ok("deploy"))
        => /\ Len(disk[t].messages) = Len(messages[t])
           /\ Cardinality(SentIn(t, CurRun)) = Cardinality(SentIn(t, CurRun - 1))

\* The pin confirmations the running deployment created for the records of
\* the file of t that come from the source message with timestamp ts.
PinsFor(t, ts) ==
    {k \in 1..Len(dest[Chan(t)]) :
        /\ dest[Chan(t)][k].run = CurRun /\ dest[Chan(t)][k].file = FileNo(t)
        /\ dest[Chan(t)][k].system
        /\ messages[t][dest[Chan(t)][k].rec].slack.timestamp = ts}

\* C29: build followed by deploy pins one destination message per pinned
\* source message: one pin request is issued, and one pin confirmation is
\* persisted, for each source message of the pin set.
C29_OnePinPerPinnedMessage ==
    \A t \in RealTasks :
        (run = "deploy" /\ pc[t] = "done" /\ hist = <<Ok("build")>> /\ DeployLoops(Chan(t)))
        => \A j \in 1..Len(src[t]) :
              src[t][j].ts \in pinIds[Chan(t)] =>
                 /\ Cardinality(PinsFor(t, src[t][j].ts)) = 1
                 /\ Cardinality({q \in 1..Len(disk[t].messages) :
                        \E k \in PinsFor(t, src[t][j].ts) :
                            dest[Chan(t)][k].id = disk[t].messages[q].message_id}) = 1

\* C22: when an attachment of the file was demoted to a link because of its
\* size (a record of the built file carries a link), buildMessageFile returns
\* isMaxFileSizeOver = true and so does buildAllMessageFile.
C22_SizeOverSignalled ==
    \A t \in RealTasks :
        (Built(t) /\ pc[t] = "done"
           /\ \E k \in 1..Len(disk[t].messages) : disk[t].messages[k].content.urls # <<>>)
        => isMaxFileSizeOver[t] /\ allMaxFileSizeOver

\* C24: while one message is built, an id with a user in the array causes no
\* call of getUsername and an id without one causes exactly one call, however
\* often its token stands in the text.
C24_OneLiveCallPerId ==
    \A t \in RealTasks :
        (Built(t) /\ pc[t] = "done" /\ Len(src[t]) = 1) =>
            \A id \in UserIds :
                Count(id, usernameCalls[t]) =
                    IF InSeq(id, src[t][1].mentions) /\ id \notin UserSetIds THEN 1 ELSE 0

\* ----------------------------------------------------- claims, liveness
\* The destination calls deployMessage (one send for a record, and one pin
\* when it is pinned) or deleteMessage (one delete for a record with an id,
\* and one unpin when it is pinned) has to issue for the records msgs.
RECURSIVE CallsNeeded(_, _)
CallsNeeded(msgs, cmd) ==
    IF msgs = <<>> THEN 0
    ELSE (IF cmd = "delete" /\ Head(msgs).message_id = NoId THEN 0
          ELSE IF Head(msgs).is_pinned THEN 2 ELSE 1)
         + CallsNeeded(Tail(msgs), cmd)

Pending(t) == pc[t] \in {"read", "send", "pin", "write", "unpin", "delete"}

\* C25: the attempts of deployMessage and deleteMessage are bounded, no call
\* is issued more often than the records of the file ask for, and the
\* function ends for every file, in success or in failure.
C25_BoundedAndTerminates ==
    /\ [](\A t \in RealTasks :
             run \in {"deploy", "delete"} => issued[t] <= CallsNeeded(messages[t], run))
    /\ \A t \in Tasks : Pending(t) ~> (pc[t] \in {"done", "failed"})

\* deleteMessage has ended in failure, by a call that was rejected, before
\* the last record of the file.
C25_Witness ==
    \E t \in RealTasks :
        /\ run = "delete" /\ pc[t] = "failed" /\ cause[t] = "transient"
        /\ idx[t] < Len(messages[t])

\* C26: a record without destination id aborts the file: when the file
\* deleteMessage was given holds such a record, no unpin or delete call is
\* issued for any record of the file.
C26_MissingIdAbortsFile ==
    \A t \in RealTasks :
        (run = "delete" /\ \E k \in 1..Len(messages[t]) : messages[t][k].message_id = NoId)
           => issued[t] = 0


\* C27: createCategory persists the result of its API calls: when it has
\* succeeded, the written category file holds, for every category, the id
\* the destination assigned at creation; and once a deleteCategory reading
\* that file has succeeded too, no category that was created is left in the
\* guild.
C27_CreatedIdsPersisted ==
    /\ (catRun = "create" /\ catPc = "done") => catFile.categories = newCategories
    /\ (catHist = <<<<"create", "done">>, <<"delete", "done">>>>) => guild \cap CreatedIds = {}

====
